---- MODULE Spec2Model ----
(***************************************************************************)
(* Model of pyprland's hdrop plugin (src/pyprland/plugins/hdrop.py): the   *)
(* scratchpad controller that shows, hides, toggles, focuses or launches a *)
(* drop-down window through the compositor's IPC backend.                  *)
(*                                                                         *)
(* Every `await` of the plugin is one action: the code between two awaits  *)
(* runs atomically on the asyncio loop, and at each await the compositor,  *)
(* the user and the configuration loader may act.                          *)
(***************************************************************************)
EXTENDS Integers, Sequences, FiniteSets, TLC

VARIABLES
    clients,    \* the compositor's window list: address index -> client or NoClient
    activeWs,   \* id of the compositor's active workspace
    apps,       \* Extension.apps: app name -> configuration dict
    task,       \* per command task: position, locals, issued backend traffic, result
    hist        \* the calls made since the world last acted (quiet specification only)

vars == <<clients, activeWs, apps, task, hist>>

(***************************************************************************)
(* Bounds                                                                  *)
(***************************************************************************)
MaxClients == 2     \* addresses the compositor can hand out
MaxWs == 2          \* normal workspaces 1..MaxWs
MaxTasks == 2       \* command tasks the daemon can run
MaxDepth == 3       \* cap on nested _handle_window passes
MaxHist == 2        \* calls in a row that the quiet specification follows

Tasks == 1..MaxTasks
Addrs == 1..MaxClients
WsIds == 1..MaxWs

(***************************************************************************)
(* Values                                                                  *)
(***************************************************************************)
None == <<>>
Some(x) == <<x>>

\* the scratchpad workspace name tested at hdrop.py:203 and :272
HDROP == "special:hdrop"

WsName(id) == ToString(id)
WsNames == {WsName(i) : i \in WsIds} \cup {HDROP}
AddrName(a) == "0x" \o ToString(a)

\* the classes of the windows that processes map
Classes == {"foo"}

NoClient == [class |-> "", ws |-> "", floating |-> FALSE]
ClientRecs == [class : Classes, ws : WsNames, floating : BOOLEAN]

\* a dict with no key, as `{}` in __init__ and as the default of dict.get
EmptyDict == [k \in {} |-> None]

\* dict.get(key, default)
Get(d, k, default) == IF k \in DOMAIN d THEN d[k] ELSE default
\* dict.get(key): None when the key is missing
GetOpt(d, k) == IF k \in DOMAIN d THEN Some(d[k]) ELSE None

(***************************************************************************)
(* Configuration files the loader may hand to on_reload                    *)
(***************************************************************************)
ConfigFiles ==
    { [ kitty |-> [command |-> "kitty", launch_on_missing |-> TRUE, focus |-> TRUE],
        term  |-> [class |-> "foo", command |-> "footerm", launch_on_missing |-> TRUE],
        idle  |-> [class |-> "foo", command |-> "footerm"],
        foo   |-> [floating |-> TRUE, height |-> 400, width |-> 600, center |-> TRUE],
        foo_h |-> [class |-> "foo", floating |-> TRUE, height |-> 400],
        foo_w |-> [class |-> "foo", floating |-> TRUE, width |-> 600, center |-> TRUE],
        blank |-> EmptyDict ],
      [ foo   |-> [command |-> "footerm", launch_on_missing |-> TRUE, focus |-> TRUE,
                   floating |-> TRUE],
        term  |-> [class |-> "foo", floating |-> TRUE, height |-> 400, width |-> 600] ] }

\* argument strings, as their whitespace-separated tokens: application names for
\* run_hdrop and run_app, class names for the legacy entry points
AppArgs ==
    { <<>>, <<"foo">>, <<"kitty">>, <<"term">>, <<"idle">>, <<"foo_h">>, <<"foo_w">>,
      <<"blank">>, <<"nope">>, <<"foo", "--focus">> }

ClassArgs == { <<>>, <<"foo">>, <<"kitty">>, <<"nope">>, <<"foo", "--focus">> }

RECURSIVE Join(_)
\* the tokens joined by one blank: the argument string with outer blanks stripped
Join(toks) ==
    IF toks = <<>> THEN ""
    ELSE IF Len(toks) = 1 THEN toks[1]
    ELSE toks[1] \o " " \o Join(Tail(toks))

(***************************************************************************)
(* HdropOptions and the options each entry point builds                    *)
(***************************************************************************)
HdropOptions(command, focus, floating, height, width, center, skip, lom) ==
    [command |-> command, focus |-> focus, floating |-> floating, height |-> height,
     width |-> width, center |-> center, skip |-> skip, launch_on_missing |-> lom]

NoOpts == HdropOptions(None, FALSE, FALSE, None, None, FALSE, FALSE, FALSE)

get_app_config(app_name) == Get(apps, app_name, EmptyDict)

\* run_app / run_toggle: every option from the configuration entry
OptsFromConf(app_conf) ==
    HdropOptions(GetOpt(app_conf, "command"),
                 Get(app_conf, "focus", FALSE),
                 Get(app_conf, "floating", FALSE),
                 GetOpt(app_conf, "height"),
                 GetOpt(app_conf, "width"),
                 Get(app_conf, "center", FALSE),
                 FALSE,
                 Get(app_conf, "launch_on_missing", FALSE))

\* run_show passing the configured focus flag on, as run_toggle does
ShowOptsConfiguredFocus(app_conf) == OptsFromConf(app_conf)

\* run_show: as above with focus=True
ShowOptsFromConf(app_conf) == [OptsFromConf(app_conf) EXCEPT !.focus = TRUE]

\* new_opts built from opts as it stands, the skip flag carried over unchanged
RetryOptsKeepSkip(o) ==
    HdropOptions(o.command, o.focus, o.floating, o.height, o.width, o.center,
                 o.skip, o.launch_on_missing)

\* new_opts carrying only the launch fields, the others left at their defaults
RetryOptsLaunchOnly(o) ==
    HdropOptions(o.command, FALSE, FALSE, None, None, FALSE, TRUE, o.launch_on_missing)

\* new_opts asking for focus whatever the caller's flag: the retry only brings the
\* launched window forward
RetryOptsFocus(o) ==
    HdropOptions(o.command, TRUE, o.floating, o.height, o.width, o.center,
                 TRUE, o.launch_on_missing)

\* new_opts of the recursive call
RetryOpts(o) ==
    HdropOptions(o.command, o.focus, o.floating, o.height, o.width, o.center,
                 TRUE, o.launch_on_missing)

(***************************************************************************)
(* Window snapshot predicates                                              *)
(***************************************************************************)
\* an existence test that overlooks the windows parked on the scratchpad
exists_outside_hdrop(snap, c) ==
    \E a \in Addrs : snap[a] # NoClient /\ snap[a].class = c /\ snap[a].ws # HDROP

is_window_exists(snap, c) ==
    \E a \in Addrs : snap[a] # NoClient /\ snap[a].class = c

\* all() where the code has any(): true of a class that has no window at all
all_windows_in_hdrop(snap, c) ==
    \A a \in Addrs : (snap[a] # NoClient /\ snap[a].class = c) => snap[a].ws = HDROP

\* the test made on the first client of the class in the list only
first_window_in_hdrop(snap, c) ==
    \E a \in Addrs :
        /\ snap[a] # NoClient /\ snap[a].class = c /\ snap[a].ws = HDROP
        /\ \A b \in Addrs : (snap[b] # NoClient /\ snap[b].class = c) => a <= b

is_window_in_hdrop(snap, c) ==
    \E a \in Addrs : snap[a] # NoClient /\ snap[a].class = c /\ snap[a].ws = HDROP

\* target_clients of _configure_floating_window, in list order
TargetClients(snap, c) ==
    SelectSeq([a \in Addrs |-> a],
              LAMBDA a : snap[a] # NoClient /\ snap[a].class = c /\ snap[a].ws # HDROP)

(***************************************************************************)
(* Backend command texts                                                   *)
(***************************************************************************)
\* the text handed to backend.execute, as the compositor reads it: the dispatcher
\* word, its parameters, and the window selector "<sel>:<who>"
Command(disp, params, sel, who) ==
    [disp |-> disp, params |-> params, sel |-> sel, who |-> who]

CmdExec(command) == Command("exec", command[1], "", "")
CmdFocus(c) == Command("focuswindow", "", "class", c)
\* the hide command selecting by address where the plugin holds a class name
CmdHideAddress(c) == Command("movetoworkspacesilent", "special:hdrop", "address", c)
CmdHide(c) == Command("movetoworkspacesilent", "special:hdrop", "class", c)
CmdMove(id, c) == Command("movetoworkspace", ToString(id), "class", c)
CmdToggleAddr(a) == Command("togglefloating", "", "address", AddrName(a))
CmdToggleClass(c) == Command("togglefloating", "", "class", c)
CmdResize(width, height, c) ==
    Command("resizewindowpixel",
            "exact " \o ToString(width[1]) \o " " \o ToString(height[1]), "class", c)
CmdCenter(c) == Command("centerwindow", "", "class", c)

\* the command as one string
Text(c) ==
    c.disp \o " " \o c.params
        \o (IF c.params # "" /\ c.sel # "" THEN "," ELSE "")
        \o (IF c.sel # "" THEN c.sel \o ":" \o c.who ELSE "")

(***************************************************************************)
(* The compositor: what a dispatched command does to the window list. A    *)
(* selector that matches several windows picks one of them; the command is *)
(* applied before it is acknowledged.                                      *)
(***************************************************************************)
Selected(c) ==
    {a \in Addrs :
        /\ clients[a] # NoClient
        /\ \/ c.sel = "class" /\ clients[a].class = c.who
           \/ c.sel = "address" /\ AddrName(a) = c.who}

WsIdOf(name) == CHOOSE i \in WsIds : WsName(i) = name

Dispatch(c) ==
    IF Selected(c) = {} \/ c.disp \notin {"movetoworkspacesilent", "movetoworkspace",
                                          "focuswindow", "togglefloating"}
    THEN UNCHANGED <<clients, activeWs>>
    ELSE \E a \in Selected(c) :
            CASE c.disp = "movetoworkspacesilent" ->
                    /\ clients' = [clients EXCEPT ![a].ws = c.params]
                    /\ UNCHANGED activeWs
              [] c.disp = "movetoworkspace" ->
                    \* the window goes to the workspace and the view follows it
                    /\ clients' = [clients EXCEPT ![a].ws = c.params]
                    /\ activeWs' = WsIdOf(c.params)
              [] c.disp = "focuswindow" ->
                    \* focusing a window on a normal workspace switches to it
                    /\ UNCHANGED clients
                    /\ activeWs' = IF clients[a].ws = HDROP THEN activeWs
                                   ELSE WsIdOf(clients[a].ws)
              [] c.disp = "togglefloating" ->
                    /\ clients' = [clients EXCEPT ![a].floating = ~@]
                    /\ UNCHANGED activeWs

(***************************************************************************)
(* Task records                                                            *)
(***************************************************************************)
\* a backend.execute() round trip
Cmd(c) == [kind |-> "cmd", c |-> c, ans |-> TRUE]

\* a get_clients() round trip made by helper fn, with the answer the helper returned
QClients(fn, ans) == [kind |-> "clients", c |-> Command(fn, "", "", ""), ans |-> ans]

\* a backend.execute_json("activeworkspace") round trip
QActiveWs(id) ==
    [kind |-> "activeworkspace", c |-> Command("activeworkspace", ToString(id), "", ""),
     ans |-> TRUE]

IdleTask ==
    [pc |-> "idle", entry |-> "", args |-> <<>>, class_name |-> "", opts |-> NoOpts,
     workspace_id |-> 0, todo |-> <<>>, floating_seen |-> {}, log |-> <<>>, ret |-> "",
     passes |-> 0]

\* command handling under a lock: a call starts only while no other call is running
IdleAndAlone(t) ==
    /\ task[t].pc \in {"idle", "done", "raised"}
    /\ \A u \in Tasks : task[u].pc \in {"idle", "done", "raised", "off"}

\* the daemon starts a command coroutine whenever the command arrives: the task is
\* free before its first call and after a call has returned or raised
Idle(t) == task[t].pc \in {"idle", "done", "raised"}

\* the position a task moves to; reaching "done" is returning None, and the locals
\* die; the list read at line 270 is of no use once the toggles are issued
At(r, p) ==
    IF p = "done"
    THEN [r EXCEPT !.pc = p, !.ret = "None", !.workspace_id = 0, !.todo = <<>>,
                   !.floating_seen = {}]
    ELSE IF p \in {"toggle_addr", "toggle_class"} THEN [r EXCEPT !.pc = p]
    ELSE [r EXCEPT !.pc = p, !.floating_seen = {}]

Logged(r, e) == [r EXCEPT !.log = Append(@, e)]

Upd(t, r) == task' = [task EXCEPT ![t] = r]

\* an entry point returning an error string before any await
Fail(e, args, msg) ==
    [IdleTask EXCEPT !.pc = "done", !.entry = e, !.args = args, !.ret = msg]

\* the guard's existence query made first, before skip and command are looked at
EnterAtGuardQuery(o) == "launch_check"

\* line 230: the first await of a pass is the launch guard's existence query only
\* when skip is false and a command is configured
EnterHandleWindow(o) ==
    IF ~o.skip /\ o.command # None THEN "launch_check" ELSE "exists"

\* an entry point calling _handle_window(class_name, opts)
Start(e, args, c, o) ==
    [IdleTask EXCEPT !.pc = EnterHandleWindow(o), !.entry = e, !.args = args,
                     !.class_name = c, !.opts = o, !.passes = 1]

\* run_focus / run_hide: straight to their own first query
StartAt(e, args, c, p) ==
    [IdleTask EXCEPT !.pc = p, !.entry = e, !.args = args, !.class_name = c]

(***************************************************************************)
(* Entry points: everything up to the first await                          *)
(***************************************************************************)
\* run_app without the `if not app_conf` return
AppCallUnchecked(e, args, app_name) ==
    LET app_conf == get_app_config(app_name) IN
    Start(e, args, Get(app_conf, "class", app_name), OptsFromConf(app_conf))

\* run_app's body for app_name, reached from entry point e
AppCall(e, args, app_name) ==
    LET app_conf == get_app_config(app_name) IN
    IF DOMAIN app_conf = {}
    THEN Fail(e, args, "Error: app '" \o app_name \o "' not configured")
    ELSE Start(e, args, Get(app_conf, "class", app_name), OptsFromConf(app_conf))

run_hdrop(t, args) ==
    /\ Idle(t)
    /\ LET app_name == IF args # <<>> THEN args[1] ELSE "" IN
       Upd(t, IF app_name = ""
              THEN Fail("hdrop", args, "Error: app name required (defined under hdrop.apps)")
              ELSE AppCall("hdrop", args, app_name))
    /\ UNCHANGED <<clients, activeWs, apps>>

run_app(t, args) ==
    /\ Idle(t)
    /\ Upd(t, AppCall("app", args, Join(args)))
    /\ UNCHANGED <<clients, activeWs, apps>>

run_toggle(t, args) ==
    /\ Idle(t)
    /\ Upd(t, IF args = <<>>
              THEN Fail("toggle", args, "Error: CLASS name required")
              ELSE Start("toggle", args, args[1], OptsFromConf(get_app_config(args[1]))))
    /\ UNCHANGED <<clients, activeWs, apps>>

run_focus(t, args) ==
    /\ Idle(t)
    /\ LET class_name == Join(args) IN
       Upd(t, IF class_name = ""
              THEN Fail("focus", args, "Error: CLASS name required")
              ELSE StartAt("focus", args, class_name, "focus_in_hdrop"))
    /\ UNCHANGED <<clients, activeWs, apps>>

run_show(t, args) ==
    /\ Idle(t)
    /\ Upd(t, IF args = <<>>
              THEN Fail("show", args, "Error: CLASS name required")
              ELSE Start("show", args, args[1], ShowOptsFromConf(get_app_config(args[1]))))
    /\ UNCHANGED <<clients, activeWs, apps>>

run_hide(t, args) ==
    /\ Idle(t)
    /\ LET class_name == Join(args) IN
       Upd(t, IF class_name = ""
              THEN Fail("hide", args, "Error: CLASS name required")
              ELSE StartAt("hide", args, class_name, "hide_exists"))
    /\ UNCHANGED <<clients, activeWs, apps>>

(***************************************************************************)
(* _handle_window, one action per await                                    *)
(***************************************************************************)
\* the guard of line 230, given the answer of its existence query
LaunchGuard(o, ex) ==
    ~o.skip /\ o.command # None /\ ~ex /\ o.launch_on_missing

\* line 230: await _is_window_exists inside the launch guard
hw_launch_check(t) ==
    /\ task[t].pc = "launch_check"
    /\ LET r == task[t]
           ex == is_window_exists(clients, r.class_name) IN
       Upd(t, At(Logged(r, QClients("exists", ex)),
                 IF LaunchGuard(r.opts, ex) THEN "exec" ELSE "exists"))
    /\ UNCHANGED <<clients, activeWs, apps>>

\* line 231: await backend.execute("exec <command>")
hw_exec(t) ==
    /\ task[t].pc = "exec"
    /\ LET c == CmdExec(task[t].opts.command) IN
       /\ Upd(t, At(Logged(task[t], Cmd(c)), "sleep"))
       /\ Dispatch(c)
    /\ UNCHANGED apps

\* lines 232-244: the settle delay is over; recursive call with new_opts
hw_sleep(t) ==
    /\ task[t].pc = "sleep"
    /\ task[t].passes < MaxDepth
    /\ LET new_opts == RetryOpts(task[t].opts) IN
       Upd(t, [task[t] EXCEPT !.opts = new_opts, !.passes = @ + 1,
                              !.pc = EnterHandleWindow(new_opts)])
    /\ UNCHANGED <<clients, activeWs, apps>>

\* line 248: await _is_window_exists
hw_exists(t) ==
    /\ task[t].pc = "exists"
    /\ LET r == task[t]
           ex == is_window_exists(clients, r.class_name) IN
       Upd(t, At(Logged(r, QClients("exists", ex)), IF ex THEN "in_hdrop" ELSE "done"))
    /\ UNCHANGED <<clients, activeWs, apps>>

\* the branch with the two arms of focus_flag swapped
BranchSwapped(o, hd) ==
    IF hd THEN "activeworkspace" ELSE IF o.focus THEN "hide" ELSE "focus"

\* the branch of lines 249-259 given the answer of _is_window_in_hdrop
Branch(o, hd) ==
    IF hd THEN "activeworkspace" ELSE IF o.focus THEN "focus" ELSE "hide"

\* line 249: await _is_window_in_hdrop
hw_in_hdrop(t) ==
    /\ task[t].pc = "in_hdrop"
    /\ LET r == task[t]
           hd == is_window_in_hdrop(clients, r.class_name) IN
       Upd(t, At(Logged(r, QClients("in_hdrop", hd)), Branch(r.opts, hd)))
    /\ UNCHANGED <<clients, activeWs, apps>>

\* line 211: await backend.execute_json("activeworkspace")
get_activeworkspace(t) ==
    /\ task[t].pc = "activeworkspace"
    /\ Upd(t, At([Logged(task[t], QActiveWs(activeWs)) EXCEPT !.workspace_id = activeWs],
                 "move"))
    /\ UNCHANGED <<clients, activeWs, apps>>

\* after _move_window_to_active_workspace: line 252 in _handle_window, the end in run_focus
AfterMove(r) ==
    IF r.entry # "focus" /\ r.opts.floating THEN "cfw_clients" ELSE "done"

\* line 213: await backend.execute("movetoworkspace <id>,class:<class>")
move_window_to_active_workspace(t) ==
    /\ task[t].pc = "move"
    /\ LET r == task[t]
           c == CmdMove(r.workspace_id, r.class_name) IN
       /\ Upd(t, At(Logged(r, Cmd(c)), AfterMove(r)))
       /\ Dispatch(c)
    /\ UNCHANGED apps

\* lines 256 and 148: await backend.execute("focuswindow class:<class>")
focuswindow(t) ==
    /\ task[t].pc = "focus"
    /\ LET c == CmdFocus(task[t].class_name) IN
       /\ Upd(t, At(Logged(task[t], Cmd(c)), "done"))
       /\ Dispatch(c)
    /\ UNCHANGED apps

\* line 207: await backend.execute("movetoworkspacesilent special:hdrop,class:<class>")
move_window_to_hdrop(t) ==
    /\ task[t].pc = "hide"
    /\ LET c == CmdHide(task[t].class_name) IN
       /\ Upd(t, At(Logged(task[t], Cmd(c)), "done"))
       /\ Dispatch(c)
    /\ UNCHANGED apps

(***************************************************************************)
(* _configure_floating_window                                              *)
(***************************************************************************)
\* lines 283-288 after the floating toggles
AfterToggle(o) ==
    IF o.height # None /\ o.width # None THEN "resize"
    ELSE IF o.center THEN "center" ELSE "done"

\* centering whatever center_flag says
AfterResizeAlwaysCenter(o) == "center"

\* lines 287-288 after the resize
AfterResize(o) == IF o.center THEN "center" ELSE "done"

\* every target client, the floating test of line 277 left out
ToToggleAll(snap, c) == TargetClients(snap, c)

\* the clients of line 276 whose toggle line 278 issues: not floating in the snapshot
ToToggle(snap, c) ==
    SelectSeq(TargetClients(snap, c), LAMBDA a : ~snap[a].floating)

\* the clients of the class that the list of line 270 reports as floating
FloatingSeen(snap, c) ==
    {a \in Addrs : snap[a] # NoClient /\ snap[a].class = c /\ snap[a].floating}

\* line 270: await get_clients; lines 271-280 choose the toggles
cfw_get_clients(t) ==
    /\ task[t].pc = "cfw_clients"
    /\ LET r == task[t]
           todo == ToToggle(clients, r.class_name) IN
       Upd(t, At([Logged(r, QClients("targets", TargetClients(clients, r.class_name) # <<>>))
                     EXCEPT !.todo = todo,
                            !.floating_seen = FloatingSeen(clients, r.class_name)],
                 IF TargetClients(clients, r.class_name) = <<>> THEN "toggle_class"
                 ELSE IF todo # <<>> THEN "toggle_addr"
                 ELSE AfterToggle(r.opts)))
    /\ UNCHANGED <<clients, activeWs, apps>>

\* line 278: await backend.execute("togglefloating address:<address>")
cfw_toggle_address(t) ==
    /\ task[t].pc = "toggle_addr"
    /\ LET r == task[t]
           c == CmdToggleAddr(Head(r.todo)) IN
       /\ Upd(t, At([Logged(r, Cmd(c)) EXCEPT !.todo = Tail(@)],
                    IF Tail(r.todo) # <<>> THEN "toggle_addr" ELSE AfterToggle(r.opts)))
       /\ Dispatch(c)
    /\ UNCHANGED apps

\* line 280: await backend.execute("togglefloating class:<class>")
cfw_toggle_class(t) ==
    /\ task[t].pc = "toggle_class"
    /\ LET c == CmdToggleClass(task[t].class_name) IN
       /\ Upd(t, At(Logged(task[t], Cmd(c)), AfterToggle(task[t].opts)))
       /\ Dispatch(c)
    /\ UNCHANGED apps

\* line 284: await backend.execute("resizewindowpixel exact <w> <h>,class:<class>")
cfw_resize(t) ==
    /\ task[t].pc = "resize"
    /\ LET r == task[t]
           c == CmdResize(r.opts.width, r.opts.height, r.class_name) IN
       /\ Upd(t, At(Logged(r, Cmd(c)), AfterResize(r.opts)))
       /\ Dispatch(c)
    /\ UNCHANGED apps

\* line 288: await backend.execute("centerwindow class:<class>")
cfw_center(t) ==
    /\ task[t].pc = "center"
    /\ LET c == CmdCenter(task[t].class_name) IN
       /\ Upd(t, At(Logged(task[t], Cmd(c)), "done"))
       /\ Dispatch(c)
    /\ UNCHANGED apps

(***************************************************************************)
(* run_focus and run_hide after their own query                            *)
(***************************************************************************)
\* run_focus with the test of line 145 negated
focus_unless_in_hdrop(t) ==
    /\ task[t].pc = "focus_in_hdrop"
    /\ LET r == task[t]
           hd == is_window_in_hdrop(clients, r.class_name) IN
       Upd(t, At(Logged(r, QClients("in_hdrop", hd)),
                 IF ~hd THEN "activeworkspace" ELSE "focus"))
    /\ UNCHANGED <<clients, activeWs, apps>>

\* line 145: await _is_window_in_hdrop
focus_in_hdrop(t) ==
    /\ task[t].pc = "focus_in_hdrop"
    /\ LET r == task[t]
           hd == is_window_in_hdrop(clients, r.class_name) IN
       Upd(t, At(Logged(r, QClients("in_hdrop", hd)),
                 IF hd THEN "activeworkspace" ELSE "focus"))
    /\ UNCHANGED <<clients, activeWs, apps>>

\* run_hide acting only on a window that is not yet on the scratchpad
hide_unless_hidden(t) ==
    /\ task[t].pc = "hide_exists"
    /\ LET r == task[t]
           ex == exists_outside_hdrop(clients, r.class_name) IN
       Upd(t, At(Logged(r, QClients("exists", ex)), IF ex THEN "hide" ELSE "done"))
    /\ UNCHANGED <<clients, activeWs, apps>>

\* line 186: await _is_window_exists
hide_exists(t) ==
    /\ task[t].pc = "hide_exists"
    /\ LET r == task[t]
           ex == is_window_exists(clients, r.class_name) IN
       Upd(t, At(Logged(r, QClients("exists", ex)), IF ex THEN "hide" ELSE "done"))
    /\ UNCHANGED <<clients, activeWs, apps>>

(***************************************************************************)
(* Backend failure: hdrop.py has no try/except, so a BackendError raised   *)
(* by the round trip a call is waiting on leaves the coroutine at once.    *)
(* The failing round trip reaches no window.                               *)
(***************************************************************************)
\* the positions at which a call waits on the backend
BackendAwaits ==
    {"launch_check", "exec", "exists", "in_hdrop", "activeworkspace", "move", "focus",
     "hide", "cfw_clients", "toggle_addr", "toggle_class", "resize", "center",
     "focus_in_hdrop", "hide_exists"}

\* the round trip that raised
Failed(p) == [kind |-> "failed", c |-> Command(p, "", "", ""), ans |-> FALSE]

\* the error caught and dropped: the call returns None as if it had succeeded
backend_failure_swallowed(t) ==
    /\ task[t].pc \in BackendAwaits
    /\ Upd(t, At(Logged(task[t], Failed(task[t].pc)), "done"))
    /\ UNCHANGED <<clients, activeWs, apps>>

\* the awaited round trip raises BackendError, which leaves the call
backend_failure(t) ==
    /\ task[t].pc \in BackendAwaits
    /\ Upd(t, [Logged(task[t], Failed(task[t].pc))
                  EXCEPT !.pc = "raised", !.ret = "BackendError", !.workspace_id = 0,
                         !.todo = <<>>, !.floating_seen = {}])
    /\ UNCHANGED <<clients, activeWs, apps>>

(***************************************************************************)
(* The world outside the plugin                                            *)
(***************************************************************************)
\* on_reload: the apps mapping is replaced by the loaded file's
on_reload(cfg) ==
    /\ apps' = cfg
    /\ UNCHANGED <<clients, activeWs, task>>

\* a process maps a window
OpenWindow(a, w) ==
    /\ clients[a] = NoClient
    /\ clients' = [clients EXCEPT ![a] = w]
    /\ UNCHANGED <<activeWs, apps, task>>

CloseWindow(a) ==
    /\ clients[a] # NoClient
    /\ clients' = [clients EXCEPT ![a] = NoClient]
    /\ UNCHANGED <<activeWs, apps, task>>

\* the user (or another client of the compositor) moves a window
MoveWindow(a, ws) ==
    /\ clients[a] # NoClient
    /\ clients[a].ws # ws
    /\ clients' = [clients EXCEPT ![a].ws = ws]
    /\ UNCHANGED <<activeWs, apps, task>>

FloatWindow(a) ==
    /\ clients[a] # NoClient
    /\ clients' = [clients EXCEPT ![a].floating = ~@]
    /\ UNCHANGED <<activeWs, apps, task>>

SwitchWorkspace(n) ==
    /\ n # activeWs
    /\ activeWs' = n
    /\ UNCHANGED <<clients, apps, task>>

(***************************************************************************)
(* Specification: one command task, with the world acting at every await   *)
(***************************************************************************)
OffTask == [IdleTask EXCEPT !.pc = "off"]

Init ==
    /\ clients \in [Addrs -> ClientRecs \cup {NoClient}]
    /\ activeWs \in WsIds
    /\ apps = EmptyDict
    /\ task = [t \in Tasks |-> IF t = 1 THEN IdleTask ELSE OffTask]
    /\ hist = <<>>

\* a step of the plugin or of the world under Spec, which keeps no history
Loud(A) == A /\ UNCHANGED hist

Next ==
    \/ \E t \in Tasks, args \in AppArgs : Loud(run_hdrop(t, args))
    \/ \E t \in Tasks, args \in AppArgs : Loud(run_app(t, args))
    \/ \E t \in Tasks, args \in ClassArgs : Loud(run_toggle(t, args))
    \/ \E t \in Tasks, args \in ClassArgs : Loud(run_focus(t, args))
    \/ \E t \in Tasks, args \in ClassArgs : Loud(run_show(t, args))
    \/ \E t \in Tasks, args \in ClassArgs : Loud(run_hide(t, args))
    \/ \E t \in Tasks : Loud(hw_launch_check(t))
    \/ \E t \in Tasks : Loud(hw_exec(t))
    \/ \E t \in Tasks : Loud(hw_sleep(t))
    \/ \E t \in Tasks : Loud(hw_exists(t))
    \/ \E t \in Tasks : Loud(hw_in_hdrop(t))
    \/ \E t \in Tasks : Loud(get_activeworkspace(t))
    \/ \E t \in Tasks : Loud(move_window_to_active_workspace(t))
    \/ \E t \in Tasks : Loud(focuswindow(t))
    \/ \E t \in Tasks : Loud(move_window_to_hdrop(t))
    \/ \E t \in Tasks : Loud(cfw_get_clients(t))
    \/ \E t \in Tasks : Loud(cfw_toggle_address(t))
    \/ \E t \in Tasks : Loud(cfw_toggle_class(t))
    \/ \E t \in Tasks : Loud(cfw_resize(t))
    \/ \E t \in Tasks : Loud(cfw_center(t))
    \/ \E t \in Tasks : Loud(focus_in_hdrop(t))
    \/ \E t \in Tasks : Loud(hide_exists(t))
    \/ \E cfg \in ConfigFiles : Loud(on_reload(cfg))
    \/ \E a \in Addrs, w \in ClientRecs : Loud(OpenWindow(a, w))
    \/ \E a \in Addrs : Loud(CloseWindow(a))
    \/ \E a \in Addrs, ws \in WsNames : Loud(MoveWindow(a, ws))
    \/ \E a \in Addrs : Loud(FloatWindow(a))
    \/ \E n \in WsIds : Loud(SwitchWorkspace(n))

Spec == Init /\ [][Next]_vars

(***************************************************************************)
(* Quiet specification: the world acts only between calls, and a caller    *)
(* may repeat its command. hist keeps, for each call since the world last  *)
(* acted, the window list before it, the call, and the window list after.  *)
(* The class-wide toggle of line 280 is no step of it: with the world      *)
(* quiet the restored window is on a normal workspace when line 270 reads  *)
(* the list (QuietNoFallback).                                             *)
(***************************************************************************)
Frame(before, ws, call, after) ==
    [before |-> before, ws |-> ws, call |-> call, after |-> after]

Last(s) == s[Len(s)]

\* an entry point called while the world is quiet: the first call, or the last repeated
QuietCall(t, A) ==
    /\ Len(hist) < MaxHist
    /\ A
    /\ hist # <<>> =>
           /\ task'[t].entry = Last(hist).call.entry
           /\ task'[t].args = Last(hist).call.args
    /\ hist' = Append(hist, Frame(clients, activeWs, task'[t], clients'))

\* an await of the running call
QuietStep(t, A) ==
    /\ A
    /\ hist' = [hist EXCEPT ![Len(hist)] = Frame(@.before, @.ws, task'[t], clients')]

\* the world acts while no call is running
QuietWorld(A) ==
    /\ \A t \in Tasks : task[t].pc \in {"idle", "done", "off"}
    /\ A
    /\ hist' = <<>>

NextQuiet ==
    \/ \E t \in Tasks, args \in AppArgs : QuietCall(t, run_hdrop(t, args))
    \/ \E t \in Tasks, args \in AppArgs : QuietCall(t, run_app(t, args))
    \/ \E t \in Tasks, args \in ClassArgs : QuietCall(t, run_toggle(t, args))
    \/ \E t \in Tasks, args \in ClassArgs : QuietCall(t, run_focus(t, args))
    \/ \E t \in Tasks, args \in ClassArgs : QuietCall(t, run_show(t, args))
    \/ \E t \in Tasks, args \in ClassArgs : QuietCall(t, run_hide(t, args))
    \/ \E t \in Tasks : QuietStep(t, hw_launch_check(t))
    \/ \E t \in Tasks : QuietStep(t, hw_exec(t))
    \/ \E t \in Tasks : QuietStep(t, hw_sleep(t))
    \/ \E t \in Tasks : QuietStep(t, hw_exists(t))
    \/ \E t \in Tasks : QuietStep(t, hw_in_hdrop(t))
    \/ \E t \in Tasks : QuietStep(t, get_activeworkspace(t))
    \/ \E t \in Tasks : QuietStep(t, move_window_to_active_workspace(t))
    \/ \E t \in Tasks : QuietStep(t, focuswindow(t))
    \/ \E t \in Tasks : QuietStep(t, move_window_to_hdrop(t))
    \/ \E t \in Tasks : QuietStep(t, cfw_get_clients(t))
    \/ \E t \in Tasks : QuietStep(t, cfw_toggle_address(t))
    \/ \E t \in Tasks : QuietStep(t, cfw_resize(t))
    \/ \E t \in Tasks : QuietStep(t, cfw_center(t))
    \/ \E t \in Tasks : QuietStep(t, focus_in_hdrop(t))
    \/ \E t \in Tasks : QuietStep(t, hide_exists(t))
    \/ \E cfg \in ConfigFiles : QuietWorld(on_reload(cfg))
    \/ \E a \in Addrs, w \in ClientRecs : QuietWorld(OpenWindow(a, w))
    \/ \E a \in Addrs : QuietWorld(CloseWindow(a))
    \/ \E a \in Addrs, ws \in WsNames : QuietWorld(MoveWindow(a, ws))
    \/ \E a \in Addrs : QuietWorld(FloatWindow(a))
    \/ \E n \in WsIds : QuietWorld(SwitchWorkspace(n))

SpecQuiet == Init /\ [][NextQuiet]_vars

(***************************************************************************)
(* Failure specification: the one command task of Spec, called for the     *)
(* configured names, with a backend whose round trips may fail             *)
(***************************************************************************)
FailAppArgs == { <<"foo">>, <<"term">> }
FailClassArgs == { <<"foo">> }

NextFail ==
    \/ \E t \in Tasks, args \in FailAppArgs : Loud(run_hdrop(t, args))
    \/ \E t \in Tasks, args \in FailAppArgs : Loud(run_app(t, args))
    \/ \E t \in Tasks, args \in FailClassArgs : Loud(run_toggle(t, args))
    \/ \E t \in Tasks, args \in FailClassArgs : Loud(run_focus(t, args))
    \/ \E t \in Tasks, args \in FailClassArgs : Loud(run_show(t, args))
    \/ \E t \in Tasks, args \in FailClassArgs : Loud(run_hide(t, args))
    \/ \E t \in Tasks : Loud(hw_launch_check(t))
    \/ \E t \in Tasks : Loud(hw_exec(t))
    \/ \E t \in Tasks : Loud(hw_sleep(t))
    \/ \E t \in Tasks : Loud(hw_exists(t))
    \/ \E t \in Tasks : Loud(hw_in_hdrop(t))
    \/ \E t \in Tasks : Loud(get_activeworkspace(t))
    \/ \E t \in Tasks : Loud(move_window_to_active_workspace(t))
    \/ \E t \in Tasks : Loud(focuswindow(t))
    \/ \E t \in Tasks : Loud(move_window_to_hdrop(t))
    \/ \E t \in Tasks : Loud(cfw_get_clients(t))
    \/ \E t \in Tasks : Loud(cfw_toggle_address(t))
    \/ \E t \in Tasks : Loud(cfw_toggle_class(t))
    \/ \E t \in Tasks : Loud(cfw_resize(t))
    \/ \E t \in Tasks : Loud(cfw_center(t))
    \/ \E t \in Tasks : Loud(focus_in_hdrop(t))
    \/ \E t \in Tasks : Loud(hide_exists(t))
    \/ \E t \in Tasks : Loud(backend_failure(t))
    \/ \E cfg \in ConfigFiles : Loud(on_reload(cfg))
    \/ \E a \in Addrs, w \in ClientRecs : Loud(OpenWindow(a, w))
    \/ \E a \in Addrs : Loud(CloseWindow(a))
    \/ \E a \in Addrs, ws \in WsNames : Loud(MoveWindow(a, ws))
    \/ \E a \in Addrs : Loud(FloatWindow(a))
    \/ \E n \in WsIds : Loud(SwitchWorkspace(n))

SpecFail == Init /\ [][NextFail]_vars

(***************************************************************************)
(* Pair specification: every command task of the daemon runs `toggle foo`, *)
(* the calls overlapping freely at their awaits, while windows of the      *)
(* class open and close.                                                   *)
(***************************************************************************)
PairConfigFiles == { [foo |-> [command |-> "footerm", launch_on_missing |-> TRUE]] }

InitPair ==
    /\ clients = [a \in Addrs |-> NoClient]
    /\ activeWs \in WsIds
    /\ apps = EmptyDict
    /\ task = [t \in Tasks |-> IdleTask]
    /\ hist = <<>>

NextPair ==
    \/ \E t \in Tasks : Loud(run_toggle(t, <<"foo">>))
    \/ \E t \in Tasks : Loud(hw_launch_check(t))
    \/ \E t \in Tasks : Loud(hw_exec(t))
    \/ \E t \in Tasks : Loud(hw_sleep(t))
    \/ \E t \in Tasks : Loud(hw_exists(t))
    \/ \E t \in Tasks : Loud(hw_in_hdrop(t))
    \/ \E t \in Tasks : Loud(get_activeworkspace(t))
    \/ \E t \in Tasks : Loud(move_window_to_active_workspace(t))
    \/ \E t \in Tasks : Loud(move_window_to_hdrop(t))
    \/ \E cfg \in PairConfigFiles : Loud(on_reload(cfg))
    \/ \E a \in Addrs, w \in ClientRecs : Loud(OpenWindow(a, w))
    \/ \E a \in Addrs : Loud(CloseWindow(a))

SpecPair == InitPair /\ [][NextPair]_vars

(***************************************************************************)
(* What a call did                                                         *)
(***************************************************************************)
Done(r) == r.pc = "done"

\* the commands of a log, in order, as the texts handed to backend.execute
Commands(log) ==
    LET s == SelectSeq(log, LAMBDA e : e.kind = "cmd") IN
    [i \in 1..Len(s) |-> Text(s[i].c)]

\* the dispatcher words of those commands
Dispatchers(log) ==
    LET s == SelectSeq(log, LAMBDA e : e.kind = "cmd") IN
    [i \in 1..Len(s) |-> s[i].c.disp]

Count(s, x) == Cardinality({i \in 1..Len(s) : s[i] = x})

LaunchEligible(o) == o.command # None /\ o.launch_on_missing

ClientsOf(snap, c) == {a \in Addrs : snap[a] # NoClient /\ snap[a].class = c}

(***************************************************************************)
(* Claims                                                                  *)
(***************************************************************************)
HandleWindowEntries == {"hdrop", "app", "toggle", "show"}

\* C1: a call of toggle, show or app issues at most one exec and makes at most two
\* passes of _handle_window, whatever the window list does meanwhile; the second
\* pass carries skip=true, so its launch guard is false and it never reaches the
\* launch path again.
C1_OneExecTwoPasses ==
    \A t \in Tasks :
        LET r == task[t] IN
        r.entry \in HandleWindowEntries =>
            /\ Count(Dispatchers(r.log), "exec") <= 1
            /\ r.passes <= 2
            /\ r.passes = 2 =>
                   /\ r.opts.skip
                   /\ \A ex \in BOOLEAN : ~LaunchGuard(r.opts, ex)
                   /\ r.pc \notin {"launch_check", "exec", "sleep"}

\* a call that launched, retried once and returned without the window ever appearing
C1_Witness ==
    \E t \in Tasks :
        /\ Done(task[t])
        /\ task[t].entry = "toggle"
        /\ task[t].passes = 2
        /\ Commands(task[t].log) = <<"exec kitty">>

\* with the world quiet the list read at line 270 holds the restored window, so the
\* class-wide toggle of line 280 is never reached
QuietNoFallback == \A t \in Tasks : task[t].pc # "toggle_class"

\* a finished quiet call for a class that no client had, and that could not launch
AbsentNoLaunch(f) ==
    /\ Done(f.call)
    /\ f.call.class_name # ""
    /\ ~LaunchEligible(f.call.opts)
    /\ ClientsOf(f.before, f.call.class_name) = {}

\* C2 as stated: for a class that no client in the window list has, a call of toggle,
\* show or focus with no launch eligible (no command, or launch_on_missing false)
\* issues no backend command.
C2_NoCommandForAbsentClass ==
    \A i \in 1..Len(hist) :
        LET f == hist[i]
            r == f.call IN
        ( /\ Done(r)
          /\ r.entry \in {"toggle", "show", "focus"}
          /\ r.class_name # ""
          /\ ~LaunchEligible(r.opts)
          /\ ClientsOf(f.before, r.class_name) = {} )
        => Commands(r.log) = <<>>

\* C2 (amended): for a class that no client in the window list has, a call of toggle
\* or show with no launch eligible issues no backend command; a call of focus issues
\* exactly one, focuswindow class:<C>, and never a workspace move.
C2_AbsentClassOnlyFocusCommands ==
    \A i \in 1..Len(hist) :
        LET f == hist[i] IN
        /\ (AbsentNoLaunch(f) /\ f.call.entry \in {"toggle", "show"})
               => Commands(f.call.log) = <<>>
        /\ (AbsentNoLaunch(f) /\ f.call.entry = "focus")
               => Commands(f.call.log) = <<"focuswindow class:" \o f.call.class_name>>

\* focus has been called for class foo while no window of that class was open
C2_Witness ==
    /\ hist # <<>>
    /\ AbsentNoLaunch(Last(hist))
    /\ Last(hist).call.entry = "focus"
    /\ Last(hist).call.args = <<"foo">>
    /\ Commands(Last(hist).call.log) = <<"focuswindow class:foo">>

\* C3: hide called twice in a row for a class whose window exists, with nothing else
\* changing the window list: each call issues exactly the one command
\* movetoworkspacesilent special:hdrop,class:<C>, no hide call issues more than one
\* command, and the window list after the second call equals the list after the
\* first, with the window on special:hdrop.
C3_HideIdempotent ==
    /\ \A i \in 1..Len(hist) :
           hist[i].call.entry = "hide" => Len(Commands(hist[i].call.log)) <= 1
    /\ ( /\ Len(hist) = 2
         /\ Done(hist[1].call) /\ Done(hist[2].call)
         /\ hist[1].call.entry = "hide"
         /\ Cardinality(ClientsOf(hist[1].before, hist[1].call.class_name)) = 1 )
       => LET c == hist[1].call.class_name
              hide == <<"movetoworkspacesilent special:hdrop,class:" \o c>> IN
          /\ Commands(hist[1].call.log) = hide
          /\ Commands(hist[2].call.log) = hide
          /\ hist[2].after = hist[1].after
          /\ \A a \in ClientsOf(hist[2].after, c) : hist[2].after[a].ws = "special:hdrop"
          /\ ClientsOf(hist[2].after, c) = ClientsOf(hist[1].before, c)

\* hide has run twice in a row on a window that was on a normal workspace
C3_Witness ==
    /\ Len(hist) = 2
    /\ Done(hist[1].call) /\ Done(hist[2].call)
    /\ hist[1].call.entry = "hide"
    /\ hist[1].call.class_name = "foo"
    /\ \E a \in Addrs :
           /\ ClientsOf(hist[1].before, "foo") = {a}
           /\ hist[1].before[a].ws = "1"
           /\ hist[2].before[a].ws = "special:hdrop"
           /\ hist[2].after[a].ws = "special:hdrop"

\* C4: a hide call with a non-empty class token issues the hide command if and only
\* if a client of that class is in the window list when line 186 reads it, whatever
\* workspace it is on and whether or not the class is configured; otherwise it
\* issues nothing; either way it returns None.
C4_HideIffExists ==
    [][\A t \in Tasks :
          LET r == task[t]
              n == task'[t] IN
          /\ (r.pc \in {"idle", "done"} /\ n # r /\ n.entry = "hide" /\ n.args # <<>>)
                 => n.pc = "hide_exists" /\ n.log = <<>>
          /\ (r.entry = "hide" /\ r.pc = "hide_exists" /\ n # r)
                 => /\ n.pc = "hide"
                         <=> \E a \in Addrs :
                                 clients[a] # NoClient /\ clients[a].class = r.class_name
                    /\ n.pc # "hide" =>
                           n.pc = "done" /\ n.ret = "None" /\ Commands(n.log) = <<>>
          /\ (r.entry = "hide" /\ r.pc = "hide" /\ n # r)
                 => /\ n.pc = "done" /\ n.ret = "None"
                    /\ Commands(n.log) =
                           <<"movetoworkspacesilent special:hdrop,class:" \o r.class_name>>
      ]_vars

\* hide has hidden a window of a class that has no configuration entry
C4_Witness ==
    \E t \in Tasks :
        /\ Done(task[t])
        /\ task[t].entry = "hide"
        /\ task[t].ret = "None"
        /\ "foo" \notin DOMAIN apps
        /\ Commands(task[t].log) = <<"movetoworkspacesilent special:hdrop,class:foo">>

\* the application name an entry point looks up
AppNameOf(r) == IF r.entry = "hdrop" /\ r.args # <<>> THEN r.args[1] ELSE Join(r.args)

ErrorStrings(name) ==
    { "Error: app name required (defined under hdrop.apps)",
      "Error: CLASS name required",
      "Error: app '" \o name \o "' not configured" }

\* C5: an entry point called with an empty name or class token, and the app entry
\* point called with a name that is no key of the configuration mapping, returns an
\* error string at once: no backend command, no backend query, and the mapping,
\* the window list and the active workspace are as before.
C5_ErrorNoSideEffect ==
    [][\A t \in Tasks :
          LET r == task[t]
              n == task'[t] IN
          ( /\ r.pc \in {"idle", "done"}
            /\ n # r
            /\ \/ n.args = <<>>
               \/ n.entry \in {"hdrop", "app"} /\ AppNameOf(n) \notin DOMAIN apps )
          => /\ n.pc = "done"
             /\ n.ret \in ErrorStrings(AppNameOf(n))
             /\ n.log = <<>>
             /\ UNCHANGED <<apps, clients, activeWs>>
      ]_vars

\* the app entry point has refused a name that the loaded configuration does not hold
C5_Witness ==
    \E t \in Tasks :
        /\ Done(task[t])
        /\ task[t].entry = "app"
        /\ task[t].args = <<"nope">>
        /\ task[t].ret = "Error: app 'nope' not configured"
        /\ task[t].log = <<>>
        /\ DOMAIN apps # {}

\* C6: a floating toggle is issued only for a client that the window list read by
\* _configure_floating_window reports as not floating: no togglefloating of the
\* controller changes a window which that list reports as already floating.
C6_ToggleOnlyNonFloating ==
    [][\A t \in Tasks :
          (task[t].pc \in {"toggle_addr", "toggle_class"} /\ task'[t] # task[t])
          => \A a \in Addrs : clients'[a] # clients[a] => a \notin task[t].floating_seen
      ]_vars

IndexOf(s, x) == {i \in 1..Len(s) : s[i] = x}

\* C7: in every call a resize is issued only when height and width are both set, a
\* center only when center is true, and in the call's commands every floating
\* toggle comes before the resize and the resize before the center.
C7_ResizeCenterGuardsAndOrder ==
    \A t \in Tasks :
        LET r == task[t]
            d == Dispatchers(r.log) IN
        /\ IndexOf(d, "resizewindowpixel") # {} =>
               r.opts.height # None /\ r.opts.width # None
        /\ IndexOf(d, "centerwindow") # {} => r.opts.center
        /\ \A i \in IndexOf(d, "togglefloating"),
              j \in IndexOf(d, "resizewindowpixel") \cup IndexOf(d, "centerwindow") : i < j
        /\ \A i \in IndexOf(d, "resizewindowpixel"), j \in IndexOf(d, "centerwindow") : i < j

\* a call has toggled, resized and centered
C7_Witness ==
    \E t \in Tasks :
        /\ Done(task[t])
        /\ \E a \in Addrs :
               Commands(task[t].log) =
                   << "movetoworkspace 1,class:foo",
                      "togglefloating address:" \o AddrName(a),
                      "resizewindowpixel exact 600 400,class:foo",
                      "centerwindow class:foo" >>

\* the window list between the restore and line 270 of a quiet call: the workspaces
\* are those the call ends with, the floating attributes those it started with
AfterRestore(f) ==
    [a \in Addrs |-> IF f.before[a] = NoClient THEN NoClient
                     ELSE [f.before[a] EXCEPT !.ws = f.after[a].ws]]

\* one togglefloating text per client of class c that is off the scratchpad and not
\* floating in the list snap, in list order, each naming its client by selector sel
ToggleTexts(snap, c, sel) ==
    LET want == SelectSeq([a \in Addrs |-> a],
                          LAMBDA a : /\ snap[a] # NoClient
                                     /\ snap[a].class = c
                                     /\ snap[a].ws # "special:hdrop"
                                     /\ ~snap[a].floating) IN
    [i \in 1..Len(want) |->
        "togglefloating " \o sel \o ":" \o (IF sel = "class" THEN c ELSE AddrName(want[i]))]

\* a finished quiet call of toggle or app with floating, both sizes and center set,
\* made while a window of its class was on the scratchpad
ScenarioC(f) ==
    /\ Done(f.call)
    /\ f.call.entry \in {"toggle", "app", "hdrop"}
    /\ f.call.opts.floating /\ f.call.opts.center
    /\ f.call.opts.height # None /\ f.call.opts.width # None
    /\ is_window_in_hdrop(f.before, f.call.class_name)

\* the commands around the floating toggles in Scenario C
RestoreText(f) == "movetoworkspace " \o ToString(f.ws) \o ",class:" \o f.call.class_name
GeometryTexts(f) ==
    << "resizewindowpixel exact " \o ToString(f.call.opts.width[1]) \o " "
           \o ToString(f.call.opts.height[1]) \o ",class:" \o f.call.class_name,
       "centerwindow class:" \o f.call.class_name >>

\* C8 as stated: with a window of class C on special:hdrop, toggle/app with
\* floating=true, height and width set and center=true, and active workspace N, issues
\* movetoworkspace N,class:C, then togglefloating class:C only if the window is not
\* already floating, then resizewindowpixel exact W H,class:C, then centerwindow
\* class:C, and nothing else.
C8_ScenarioC_ToggleByClass ==
    \A i \in 1..Len(hist) :
        LET f == hist[i]
            c == f.call.class_name IN
        (ScenarioC(f) /\ Cardinality(ClientsOf(f.before, c)) = 1)
        => Commands(f.call.log) =
               <<RestoreText(f)>> \o ToggleTexts(AfterRestore(f), c, "class")
                                  \o GeometryTexts(f)

\* C8 (amended): in that scenario the call issues movetoworkspace N,class:C, then one
\* togglefloating address:<address> for each client of class C that is then off the
\* scratchpad and not floating, in list order, then resizewindowpixel exact W H,class:C,
\* then centerwindow class:C, and nothing else.
C8_ScenarioC_ToggleByAddress ==
    \A i \in 1..Len(hist) :
        LET f == hist[i]
            c == f.call.class_name IN
        ScenarioC(f)
        => Commands(f.call.log) =
               <<RestoreText(f)>> \o ToggleTexts(AfterRestore(f), c, "address")
                                  \o GeometryTexts(f)

\* Scenario C has run on workspace 2 for a window that was not floating
C8_Witness ==
    /\ hist # <<>>
    /\ ScenarioC(Last(hist))
    /\ Last(hist).call.entry = "toggle"
    /\ \E a \in Addrs :
           /\ Last(hist).before[a] = [class |-> "foo", ws |-> "special:hdrop", floating |-> FALSE]
           /\ Last(hist).after[a] = [class |-> "foo", ws |-> "2", floating |-> TRUE]
           /\ Commands(Last(hist).call.log) =
                  << "movetoworkspace 2,class:foo",
                     "togglefloating address:" \o AddrName(a),
                     "resizewindowpixel exact 600 400,class:foo",
                     "centerwindow class:foo" >>

\* C9: a call whose app has a command and launch_on_missing=true, and whose first
\* look at the window list finds no client of the class, issues exec <command>,
\* waits the settle delay and looks again exactly once; if the class is still absent
\* at that second look it returns with the exec as its only command.
C9_ScenarioA_LaunchThenRecheck ==
    \A t \in Tasks :
        LET r == task[t]
            n == Len(r.log)
            looks == {i \in 1..n : r.log[i] = QClients("exists", r.log[i].ans)} IN
        ( /\ r.entry \in HandleWindowEntries
          /\ LaunchEligible(r.opts)
          /\ n >= 1
          /\ r.log[1] = QClients("exists", FALSE) )
        => /\ n = 1 => r.pc = "exec"
           /\ n >= 2 => r.log[2] = Cmd(Command("exec", r.opts.command[1], "", ""))
           /\ n = 2 => r.pc \in {"sleep", "exists"}
           /\ n >= 3 => r.log[3] \in {QClients("exists", b) : b \in BOOLEAN}
           /\ looks \subseteq {1, 3}
           /\ (n >= 3 /\ ~r.log[3].ans)
                  => /\ n = 3
                     /\ Done(r)
                     /\ r.ret = "None"
                     /\ Commands(r.log) = <<"exec " \o r.opts.command[1]>>

\* app kitty has launched, looked again, found nothing and returned
C9_Witness ==
    \E t \in Tasks :
        /\ Done(task[t])
        /\ task[t].entry = "app"
        /\ task[t].args = <<"kitty">>
        /\ apps # EmptyDict
        /\ task[t].log = << QClients("exists", FALSE),
                            Cmd(Command("exec", "kitty", "", "")),
                            QClients("exists", FALSE) >>

\* C10: with the clients of class C all on normal workspaces and at least one of
\* them there, toggle/app with focus=false and floating=false issues exactly the one
\* command movetoworkspacesilent special:hdrop,class:C; so does the legacy toggle
\* for a class with no configuration entry, whose options all default to false.
C10_ScenarioB_HideOnly ==
    \A i \in 1..Len(hist) :
        LET f == hist[i]
            r == f.call IN
        ( /\ Done(r)
          /\ r.entry \in {"toggle", "app", "hdrop"}
          /\ r.class_name # ""
          /\ ~r.opts.focus /\ ~r.opts.floating
          /\ ClientsOf(f.before, r.class_name) # {}
          /\ \A a \in ClientsOf(f.before, r.class_name) : f.before[a].ws # "special:hdrop" )
        => Commands(r.log) = <<"movetoworkspacesilent special:hdrop,class:" \o r.class_name>>

\* the legacy toggle has hidden a window of a class that has no configuration entry
C10_Witness ==
    /\ hist # <<>>
    /\ apps = EmptyDict
    /\ LET f == Last(hist) IN
       /\ Done(f.call)
       /\ f.call.entry = "toggle"
       /\ f.call.args = <<"foo">>
       /\ f.call.opts = NoOpts
       /\ \E a \in Addrs :
              /\ ClientsOf(f.before, "foo") = {a}
              /\ f.before[a].ws = "1"
              /\ f.after[a].ws = "special:hdrop"
       /\ Commands(f.call.log) = <<"movetoworkspacesilent special:hdrop,class:foo">>

\* the answers a call got from the helper fn, in order
Answers(log, fn) ==
    LET s == SelectSeq(log, LAMBDA e : e.kind = "clients" /\ e.c.disp = fn) IN
    [i \in 1..Len(s) |-> s[i].ans]

\* C11: show forces focus=true: no show call that gets past its argument test ever
\* issues the hide command, whatever focus flag is configured (a refused call issues
\* nothing at all), and a show call that finds the window existing and off
\* the scratchpad issues exactly one command, focuswindow class:<C>, and no
\* workspace move.
C11_ShowNeverHides ==
    \A t \in Tasks :
        LET r == task[t] IN
        (r.entry = "show" /\ r.class_name # "") =>
            /\ r.opts.focus
            /\ r.pc # "hide"
            /\ Count(Dispatchers(r.log), "movetoworkspacesilent") = 0
            /\ ( /\ Done(r)
                 /\ Answers(r.log, "exists") \in {<<TRUE>>, <<TRUE, TRUE>>}
                 /\ Answers(r.log, "in_hdrop") = <<FALSE>> )
               => Commands(r.log) = <<"focuswindow class:" \o r.class_name>>

\* show has focused a window of a class whose entry configures no focus flag
C11_Witness ==
    \E t \in Tasks :
        /\ Done(task[t])
        /\ task[t].entry = "show"
        /\ task[t].args = <<"foo">>
        /\ "foo" \in DOMAIN apps /\ ~Get(apps["foo"], "focus", FALSE)
        /\ Answers(task[t].log, "in_hdrop") = <<FALSE>>
        /\ Commands(task[t].log) = <<"focuswindow class:foo">>

\* C12: the focus entry point builds no options and never reaches the launch path or
\* the geometry commands: a finished call has issued exactly one command,
\* movetoworkspace <active id>,class:<C> with the id the backend reported if the
\* scratchpad test answered true, focuswindow class:<C> otherwise.
C12_FocusOneCommand ==
    \A t \in Tasks :
        LET r == task[t] IN
        r.entry = "focus" =>
            /\ r.opts = NoOpts
            /\ r.passes = 0
            /\ r.pc \in {"done", "focus_in_hdrop", "activeworkspace", "move", "focus"}
            /\ \A i \in 1..Len(r.log) :
                   r.log[i].kind = "cmd" => r.log[i].c.disp \in {"movetoworkspace", "focuswindow"}
            /\ (Done(r) /\ r.class_name # "") =>
                   \/ /\ Answers(r.log, "in_hdrop") = <<FALSE>>
                      /\ r.log = << QClients("in_hdrop", FALSE),
                                    Cmd(Command("focuswindow", "", "class", r.class_name)) >>
                   \/ /\ Answers(r.log, "in_hdrop") = <<TRUE>>
                      /\ \E id \in WsIds :
                            /\ r.log[2] = QActiveWs(id)
                            /\ Commands(r.log) =
                                   <<"movetoworkspace " \o ToString(id) \o ",class:" \o r.class_name>>
                      /\ Len(r.log) = 3

\* focus has brought back a window of a class whose entry would launch and float
C12_Witness ==
    \E t \in Tasks :
        /\ Done(task[t])
        /\ task[t].entry = "focus"
        /\ task[t].args = <<"foo">>
        /\ "foo" \in DOMAIN apps /\ "command" \in DOMAIN apps["foo"]
        /\ Commands(task[t].log) = <<"movetoworkspace 2,class:foo">>

\* C13: within one pass of _handle_window the existence test, the scratchpad test and
\* the launch guard's existence test are answered from one window list: the list the
\* scratchpad test reads still holds the window the existence test found, and the
\* existence test of line 248 answers as the launch guard's did in the same pass.
C13_OneSnapshotPerPass ==
    [][\A t \in Tasks :
          LET r == task[t] IN
          (r.entry \in HandleWindowEntries /\ task'[t] # r)
          => /\ r.pc = "in_hdrop" => ClientsOf(clients, r.class_name) # {}
             /\ (r.pc = "exists" /\ r.passes = 1 /\ Len(r.log) = 1)
                    => (ClientsOf(clients, r.class_name) # {}) = r.log[1].ans
      ]_vars

\* every client of class c is on the scratchpad, and there is one
AllOnScratchpad(snap, c) ==
    /\ ClientsOf(snap, c) # {}
    /\ \A a \in ClientsOf(snap, c) : snap[a].ws = "special:hdrop"

\* C14: a resize or center for class C is issued only once a window of the class has
\* left the scratchpad: whenever resizewindowpixel or centerwindow is issued, either
\* the list the call read at line 270 showed a client of class C off special:hdrop, or
\* the windows of class C are not all on special:hdrop at that moment.
C14_NoGeometryOnScratchpad ==
    [][\A t \in Tasks :
          LET r == task[t] IN
          (r.pc \in {"resize", "center"} /\ task'[t] # r)
          => \/ Answers(r.log, "targets") = <<TRUE>>
             \/ ~AllOnScratchpad(clients, r.class_name)
      ]_vars

\* the configuration entry a call of toggle, show or app looks up when it starts
LookedUp(r) ==
    LET name == IF r.entry \in {"toggle", "show"} THEN r.args[1] ELSE AppNameOf(r) IN
    IF name \in DOMAIN apps THEN apps[name] ELSE EmptyDict

\* C15: a call takes its options from the configuration mapping as it is when the
\* call starts, and keeps them to its end: at every later step of the call, whatever
\* reloads happen meanwhile, the options are the ones read at the start (only skip
\* is set for the retry pass), and the exec and resize texts are built from them.
C15_OneConfigVersion ==
    [][\A t \in Tasks :
          LET r == task[t]
              n == task'[t] IN
          /\ ( /\ r.pc \in {"idle", "done"}
               /\ n # r
               /\ n.entry \in HandleWindowEntries
               /\ n.pc # "done" )
             => LET conf == LookedUp(n) IN
                n.opts = [ command |-> GetOpt(conf, "command"),
                           focus |-> n.entry = "show" \/ Get(conf, "focus", FALSE),
                           floating |-> Get(conf, "floating", FALSE),
                           height |-> GetOpt(conf, "height"),
                           width |-> GetOpt(conf, "width"),
                           center |-> Get(conf, "center", FALSE),
                           skip |-> FALSE,
                           launch_on_missing |-> Get(conf, "launch_on_missing", FALSE) ]
          /\ (r.pc \notin {"idle", "done", "off"} /\ n # r)
             => /\ n.entry = r.entry /\ n.args = r.args /\ n.class_name = r.class_name
                /\ [n.opts EXCEPT !.skip = FALSE] = [r.opts EXCEPT !.skip = FALSE]
                /\ r.pc = "exec" => Last(n.log).c.params = r.opts.command[1]
                /\ r.pc = "resize" =>
                       Last(n.log).c.params =
                           "exact " \o ToString(r.opts.width[1]) \o " " \o ToString(r.opts.height[1])
      ]_vars

\* app term has launched and then hidden the new window under the options it read
\* at its start, the mapping having been replaced meanwhile by one whose entry for
\* term has no command
C15_Witness ==
    \E t \in Tasks :
        /\ Done(task[t])
        /\ task[t].entry = "app"
        /\ task[t].args = <<"term">>
        /\ task[t].passes = 2
        /\ "term" \in DOMAIN apps /\ "command" \notin DOMAIN apps["term"]
        /\ Commands(task[t].log) =
               <<"exec footerm", "movetoworkspacesilent special:hdrop,class:foo">>

\* C16: calls for one class are not serialized. A toggle call can start whenever its
\* own task is free, whatever another call for the class is doing, and a call that
\* stands at its exec or at its hide command can issue it whatever the other call
\* has done; the bound of one exec and one hide holds for each call by itself.
C16_CallsNotSerialized ==
    \A t \in Tasks :
        /\ task[t].pc \in {"idle", "done"} => ENABLED run_toggle(t, <<"foo">>)
        /\ task[t].pc = "exec" => ENABLED hw_exec(t)
        /\ task[t].pc = "hide" => ENABLED move_window_to_hdrop(t)
        /\ Count(Dispatchers(task[t].log), "exec") <= 1
        /\ Count(Dispatchers(task[t].log), "movetoworkspacesilent") <= 1

\* two overlapping toggle calls have both found the window missing and both issued
\* exec, and both now stand at the hide command for the one window that appeared
C16_Witness ==
    /\ \A t \in {1, 2} :
           /\ task[t].pc = "hide"
           /\ task[t].log[1] = QClients("exists", FALSE)
           /\ Commands(task[t].log) = <<"exec footerm">>
    /\ Cardinality(ClientsOf(clients, "foo")) = 1

\* C17: a backend failure is not caught. A call whose round trip failed has ended
\* with the error raised to the caller, not with a return value; the failed round
\* trip is the last backend traffic of the call, so the call issues no command after
\* it, neither a further one nor one that undoes an earlier command; and a call ends
\* raised only through such a failure.
C17_FailurePropagates ==
    \A t \in Tasks :
        LET r == task[t] IN
        /\ \A i \in 1..Len(r.log) :
               r.log[i].kind = "failed"
               => /\ i = Len(r.log)
                  /\ r.pc = "raised"
                  /\ r.ret = "BackendError"
                  /\ r.log[i].c.disp \in BackendAwaits
        /\ r.pc = "raised" => r.log # <<>> /\ Last(r.log).kind = "failed"
        /\ r.ret = "BackendError" => r.pc = "raised"

\* a call has restored a window and then failed at the window list query of line
\* 270: it raised, and the window stays where the restore put it
C17_Witness ==
    \E t \in Tasks :
        /\ task[t].pc = "raised"
        /\ task[t].ret = "BackendError"
        /\ Commands(task[t].log) = <<"movetoworkspace 1,class:foo">>
        /\ Last(task[t].log) = Failed("cfw_clients")
        /\ \E a \in Addrs : clients[a] # NoClient /\ clients[a].ws = "1"

\* the call launched, and after the settle delay found the window, off the scratchpad
LaunchedAndAppeared(r) ==
    /\ r.entry \in HandleWindowEntries
    /\ Len(r.log) >= 4
    /\ r.log[1] = QClients("exists", FALSE)
    /\ r.log[2] = Cmd(Command("exec", r.opts.command[1], "", ""))
    /\ r.log[3] = QClients("exists", TRUE)
    /\ r.log[4] = QClients("in_hdrop", FALSE)

\* C18: the retry pass applies the ordinary decision table to the launched window,
\* under the caller's own focus flag. The recursive call after the settle delay
\* carries the focus flag the call started with; a call that has issued exec and then
\* finds the window existing and off the scratchpad issues as its second and last
\* command focuswindow class:<C> if focus is true and
\* movetoworkspacesilent special:hdrop,class:<C> if focus is false: a launching call
\* with focus=false hides the window it launched.
C18_RetryFocusesOrHides ==
    [][\A t \in Tasks :
          LET r == task[t]
              n == task'[t] IN
          /\ (r.pc = "sleep" /\ n # r /\ n.pc # "raised")
             => /\ n.opts.focus = r.opts.focus
                /\ n.opts.command = r.opts.command
                /\ n.class_name = r.class_name
                /\ n.pc = "exists"
          /\ LaunchedAndAppeared(n) =>
                /\ n.passes = 2
                /\ n.pc = IF Len(n.log) = 4
                          THEN (IF n.opts.focus THEN "focus" ELSE "hide")
                          ELSE "done"
                /\ Done(n) =>
                      Commands(n.log) =
                         << "exec " \o n.opts.command[1],
                            IF n.opts.focus THEN "focuswindow class:" \o n.class_name
                            ELSE "movetoworkspacesilent special:hdrop,class:"
                                 \o n.class_name >>
      ]_vars

\* hdrop term, configured without focus, has launched footerm and hidden its window
C18_Witness ==
    \E t \in Tasks :
        /\ Done(task[t])
        /\ task[t].entry = "hdrop"
        /\ task[t].args = <<"term">>
        /\ ~task[t].opts.focus
        /\ LaunchedAndAppeared(task[t])
        /\ Commands(task[t].log) =
               <<"exec footerm", "movetoworkspacesilent special:hdrop,class:foo">>
        /\ \E a \in Addrs : clients[a] # NoClient /\ clients[a].ws = "special:hdrop"

\* a finished toggle (by class, by app, or by the hdrop command) for a class with
\* exactly one window when the call started
ToggleOfOne(f, a) ==
    /\ Done(f.call)
    /\ f.call.entry \in {"toggle", "app", "hdrop"}
    /\ f.call.class_name # ""
    /\ ClientsOf(f.before, f.call.class_name) = {a}

Hidden(snap, a) == snap[a].ws = "special:hdrop"

\* C19: with nothing else acting during the calls and a single window of class C, a
\* toggle call with focus=false flips the window's scratchpad membership (a hidden
\* window is shown on the workspace active at the call, a shown window is hidden),
\* so two successive toggle calls return it to its original membership; with
\* focus=true a toggle call issues no hide command and leaves every shown window of
\* the class off the scratchpad.
C19_ToggleInvolution ==
    /\ \A i \in 1..Len(hist), a \in Addrs :
           LET f == hist[i] IN
           (ToggleOfOne(f, a) /\ ~f.call.opts.focus) =>
               /\ ClientsOf(f.after, f.call.class_name) = {a}
               /\ Hidden(f.after, a) = ~Hidden(f.before, a)
               /\ Hidden(f.before, a) => f.after[a].ws = ToString(f.ws)
    /\ \A a \in Addrs :
           ( /\ Len(hist) = 2
             /\ ToggleOfOne(hist[1], a) /\ Done(hist[2].call)
             /\ ~hist[1].call.opts.focus )
           => /\ hist[2].before = hist[1].after
              /\ ~hist[2].call.opts.focus
              /\ Hidden(hist[2].after, a) = Hidden(hist[1].before, a)
    /\ \A i \in 1..Len(hist) :
           LET f == hist[i] IN
           ( /\ Done(f.call)
             /\ f.call.entry \in {"toggle", "app", "hdrop"}
             /\ f.call.class_name # ""
             /\ f.call.opts.focus )
           => /\ Count(Dispatchers(f.call.log), "movetoworkspacesilent") = 0
              /\ \A a \in ClientsOf(f.before, f.call.class_name) :
                     ~Hidden(f.before, a) => (f.after[a] # NoClient /\ ~Hidden(f.after, a))

\* two toggles without focus: the first has hidden the one window of class foo, the
\* second has brought it back to the active workspace
C19_Witness ==
    /\ Len(hist) = 2
    /\ Done(hist[1].call) /\ Done(hist[2].call)
    /\ hist[1].call.entry = "toggle"
    /\ ~hist[1].call.opts.focus
    /\ \E a \in Addrs :
           /\ ToggleOfOne(hist[1], a)
           /\ ~Hidden(hist[1].before, a)
           /\ Hidden(hist[1].after, a)
           /\ ~Hidden(hist[2].after, a)
           /\ hist[2].after[a].ws = ToString(hist[2].ws)
    /\ Commands(hist[1].call.log) = <<"movetoworkspacesilent special:hdrop,class:foo">>
    /\ Commands(hist[2].call.log)[1] = "movetoworkspace " \o ToString(hist[2].ws) \o ",class:foo"

\* the class of the call has two or more clients in the list the call started from,
\* one at least on special:hdrop and one at least on a normal workspace
MixedMembership(f) ==
    LET cs == ClientsOf(f.before, f.call.class_name) IN
    /\ Cardinality(cs) >= 2
    /\ \E a \in cs : Hidden(f.before, a)
    /\ \E a \in cs : ~Hidden(f.before, a)

\* C20: scratchpad membership of a class is an existential test over its clients.
\* With nothing else acting during the call, a toggle call for a class that has two
\* or more clients, one of them on special:hdrop and another on a normal workspace,
\* asks for the active workspace and issues movetoworkspace <active id>,class:<C> as
\* its first command, and issues neither focuswindow nor movetoworkspacesilent,
\* whatever its focus flag.
C20_AnyHiddenClientRestores ==
    \A i \in 1..Len(hist) :
        LET f == hist[i]
            r == f.call IN
        ( /\ r.entry \in {"toggle", "app", "hdrop"}
          /\ r.class_name # ""
          /\ MixedMembership(f) )
        => /\ r.pc \notin {"focus", "hide", "exec", "sleep"}
           /\ Count(Dispatchers(r.log), "focuswindow") = 0
           /\ Count(Dispatchers(r.log), "movetoworkspacesilent") = 0
           /\ Count(Dispatchers(r.log), "exec") = 0
           /\ Answers(r.log, "in_hdrop") \in {<<>>, <<TRUE>>}
           /\ Done(r) =>
                  /\ Answers(r.log, "in_hdrop") = <<TRUE>>
                  /\ Commands(r.log)[1] =
                         "movetoworkspace " \o ToString(f.ws) \o ",class:" \o r.class_name

\* toggle foo without focus, two foo windows, the first on workspace 1 and the second
\* on special:hdrop: the call has issued the restore command and nothing else
C20_Witness ==
    /\ hist # <<>>
    /\ LET f == Last(hist) IN
       /\ Done(f.call)
       /\ f.call.entry = "toggle"
       /\ ~f.call.opts.focus
       /\ MixedMembership(f)
       /\ \E a, b \in Addrs :
              /\ a < b
              /\ f.before[a].ws = "1"
              /\ f.before[b].ws = "special:hdrop"
              /\ f.after[a].ws # "special:hdrop"
       /\ Commands(f.call.log) = <<"movetoworkspace " \o ToString(f.ws) \o ",class:foo">>

====
